---- MODULE Spec2Model ----
(***************************************************************************)
(* Model of circular_buffer.c (akshay-dandekar/circular_buffer): a fixed   *)
(* capacity ring of void* elements with push/pop, bulk get/set and peek.   *)
(*                                                                         *)
(* Element values are pointer values, modelled as naturals (0 is the null  *)
(* pointer).  C indices are 0-based; the sequences below are 1-based, so   *)
(* C index i is position i + 1.                                            *)
(*                                                                         *)
(* Each API function is one action that runs the whole call and leaves a   *)
(* record of it in last (and the caller's array in data_buf).  Return is   *)
(* the caller taking that result; the next call starts from there.         *)
(* Undefined behaviour a call executes is recorded in last.ub: a storage   *)
(* or caller-array index out of range reads the marker Indet and writes    *)
(* nothing to the modelled arrays.  memset is modelled for a little-endian *)
(* build with PtrSize-byte pointers.                                       *)
(***************************************************************************)
EXTENDS Integers, Sequences, FiniteSets, TLC

\* ---------------------------------------------------------------- bounds
MaxCap == 2        \* largest capacity passed to circular_buffer_init
MaxElem == 2       \* elements pushed are the pointers 1..MaxElem
MaxDataLen == 3    \* largest 'len' (length of the caller's data_buf)
MaxPush == 5       \* pushes recorded by the FIFO history (SpecFifo)

\* ------------------------------------------------------ program constants
PtrSize == 8       \* sizeof(void *) of the build, in bytes
ByteRange == 256   \* values of one byte (unsigned char written by memset)

Elems == 1..MaxElem
\* A pointer whose four low bytes are all non-zero: what the caller's array
\* may hold before a call.
Junk == ((ByteRange + 1) * ByteRange + 1) * ByteRange + 1
\* Marker for an indeterminate value: a malloc'ed slot never written, or a
\* value read outside an array.
Indet == -1
Fills == {0, Junk}
\* Integer arguments (len, offset, max_len): one negative value and the
\* naturals up to the bound.
Neg == {-1}
Ints == Neg \cup 0..MaxDataLen
Caps == Neg \cup 0..MaxCap
OffCbs == {0, 1}

VARIABLES
    buffer,     \* c_buf->buffer: "NULL", "heap" (the live allocation) or "wild"
    mem,        \* the allocated block buffer points to (<<>> when none)
    head,       \* c_buf->head
    tail,       \* c_buf->tail
    len,        \* c_buf->len
    maxlen,     \* c_buf->maxlen
    defined,    \* the struct has been through a successful init
    last,       \* the last call: operation, arguments, return value, UB hit
    data_buf,   \* the caller's array after the last bulk call
    held,       \* ghost: elements stored minus elements removed since last empty
    sincePush,  \* ghost: successful pushes since last empty (saturates at maxlen+1)
    sinceRem,   \* ghost: an element was removed since the buffer was last empty
    track,      \* ghost: the push/pop history is being recorded
    pushed,     \* ghost: elements of the successful pushes, in order
    popped      \* ghost: results of the successful pops, in order

cb == <<buffer, mem, head, tail, len, maxlen>>
ghost == <<held, sincePush, sinceRem, track, pushed, popped>>
vars == <<buffer, mem, head, tail, len, maxlen, defined, last, data_buf,
          held, sincePush, sinceRem, track, pushed, popped>>

\* ------------------------------------------------------------- C helpers
\* C's % truncates toward zero; b = 0 is undefined and handled by callers.
CMod(a, b) ==
    LET m == IF b < 0 THEN -b ELSE b
    IN IF a >= 0 THEN a % m ELSE -((-a) % m)

\* c_buf->buffer[i] as an rvalue: outside the block the value is indeterminate.
MemRead(i) == IF i \in 0..(Len(mem) - 1) THEN mem[i + 1] ELSE Indet
MemOob(i) == IF i \in 0..(Len(mem) - 1) THEN {} ELSE {"cb_oob"}
\* c_buf->buffer[i] = v on block m.
MemWrite(m, i, v) == IF i \in 0..(Len(m) - 1) THEN [m EXCEPT ![i + 1] = v] ELSE m

\* data_buf[k] of the caller's array db.
ExtRead(db, k) == IF k \in 0..(Len(db) - 1) THEN db[k + 1] ELSE Indet
ExtWrite(db, k, v) == IF k \in 0..(Len(db) - 1) THEN [db EXCEPT ![k + 1] = v] ELSE db
ExtOob(db, k) == IF k \in 0..(Len(db) - 1) THEN {} ELSE {"ext_oob"}

\* Clear the r low-addressed bytes of the pointer value v (little-endian).
RECURSIVE ZeroLowBytes(_, _)
ZeroLowBytes(v, r) ==
    IF r <= 0 \/ v <= 0 THEN v
    ELSE ByteRange * ZeroLowBytes(v \div ByteRange, r - 1)

\* memset(data_buf, 0, n): clears the first n BYTES of the array db.
Memset0(db, n) ==
    [k \in 1..Len(db) |->
        IF k * PtrSize <= n THEN 0
        ELSE IF (k - 1) * PtrSize < n THEN ZeroLowBytes(db[k], n - (k - 1) * PtrSize)
        ELSE db[k]]

\* The record of a call: the operation, its return value, its integer
\* arguments, the element passed in (data), the out-pointer of pop (out),
\* the element stored through it (val), the undefined behaviour executed
\* and the value the call assigned to errno ("none" when it assigned none).
Call(op, ret, n, off, offcb, data, out, val, ub) ==
    [op |-> op, ret |-> ret, len |-> n, offset |-> off, offset_cb |-> offcb,
     data |-> data, out |-> out, val |-> val, ub |-> ub, err |-> "none"]

\* The call c with errno = e executed.
SetErrno(c, e) == [c EXCEPT !.err = e]

NoCall == Call("none", 0, 0, 0, 0, 0, "none", 0, {})

\* No call is in progress and the result of the last one has been taken.
Idle == last.op = "none"

\* -------------------------------------------------------------- queries
\* Mutant: a buffer holding one element counts as empty.
is_empty_le1 == IF len <= 1 THEN 1 ELSE 0

circular_buffer_is_empty == IF len = 0 THEN 1 ELSE 0

\* Mutant: full only once len exceeds maxlen.
is_full_gt == IF len > maxlen THEN 1 ELSE 0

\* Mutant: full one element early.
is_full_early == IF len >= maxlen - 1 THEN 1 ELSE 0

circular_buffer_is_full == IF len = maxlen THEN 1 ELSE 0

\* ------------------------------------------------------------ ghost steps
Sat(n) == IF n > maxlen + 1 THEN maxlen + 1 ELSE n

\* n elements stored by successful push steps (byPush) or by set_data.
GhostAdd(n, byPush) ==
    /\ held' = held + n
    /\ sincePush' = IF byPush THEN Sat(sincePush + n) ELSE sincePush
    /\ sinceRem' = sinceRem

\* n elements removed, leaving newlen elements.
GhostRemove(n, newlen) ==
    /\ held' = held - n
    /\ sincePush' = IF newlen = 0 THEN 0 ELSE sincePush
    /\ sinceRem' = IF newlen = 0 THEN FALSE ELSE (sinceRem \/ n > 0)

GhostReset ==
    /\ held' = 0
    /\ sincePush' = 0
    /\ sinceRem' = FALSE

\* ---------------------------------------------------------------- init
\* The struct before circular_buffer_init has indeterminate fields.
Init ==
    /\ buffer \in {"NULL", "wild"}
    /\ mem = <<>>
    /\ head \in {0, Indet}
    /\ tail \in {0, Indet}
    /\ len \in {0, Indet}
    /\ maxlen \in {0, Indet}
    /\ defined = FALSE
    /\ last = NoCall
    /\ data_buf = <<>>
    /\ held = 0
    /\ sincePush = 0
    /\ sinceRem = FALSE
    /\ track = FALSE
    /\ pushed = <<>>
    /\ popped = <<>>

\* malloc(sizeof(void *) * max_len): a negative max_len converts to a huge
\* size_t and fails; size 0 may give NULL or a block of no slots; any
\* request may fail for lack of memory.
MallocResults(max_len) ==
    IF max_len < 0 THEN {"NULL"} ELSE {"NULL", "heap"}

circular_buffer_init(max_len) ==
    /\ Idle
    /\ buffer # "heap"
    /\ \E p \in MallocResults(max_len) :
        /\ buffer' = p
        /\ IF p = "NULL"
           THEN /\ UNCHANGED <<mem, head, tail, len, maxlen, defined>>
                /\ last' = SetErrno(Call("init", -1, max_len, 0, 0, 0, "none", 0, {}), "ENOMEM")
                /\ UNCHANGED <<held, sincePush, sinceRem>>
           ELSE /\ mem' = [i \in 1..max_len |-> Indet]
                /\ len' = 0
                /\ head' = 0
                /\ tail' = 0
                /\ maxlen' = max_len
                /\ defined' = TRUE
                /\ last' = Call("init", 0, max_len, 0, 0, 0, "none", 0, {})
                /\ GhostReset
    /\ data_buf' = <<>>
    /\ UNCHANGED <<track, pushed, popped>>

circular_buffer_deinit ==
    /\ Idle
    /\ defined
    /\ buffer' = "NULL"
    /\ mem' = <<>>
    /\ len' = 0
    /\ head' = 0
    /\ tail' = 0
    /\ maxlen' = 0
    /\ last' = Call("deinit", 0, 0, 0, 0, 0, "none", 0, {})
    /\ data_buf' = <<>>
    /\ GhostReset
    /\ UNCHANGED <<defined, track, pushed, popped>>

\* ---------------------------------------------------------- push / pop
\* Mutant: head advances on the push into an empty buffer too.
push_head_always(h, l) == CMod(h + 1, maxlen)

\* The head a push writes at, from head h and length l.
push_head(h, l) == IF l > 0 THEN CMod(h + 1, maxlen) ELSE h

\* Mutant: tail advances on the pop of the last element too.
pop_tail_always(t, l) == CMod(t + 1, maxlen)

\* The tail a pop leaves, from tail t and length l.
pop_tail(t, l) == IF l > 1 THEN CMod(t + 1, maxlen) ELSE t

circular_buffer_push(data) ==
    /\ Idle
    /\ defined
    /\ IF circular_buffer_is_full = 1
       THEN /\ UNCHANGED <<cb, held, sincePush, sinceRem, pushed>>
            /\ last' = Call("push", -1, 0, 0, 0, data, "none", 0, {})
       ELSE LET h == push_head(head, len)
            IN /\ head' = h
               /\ mem' = MemWrite(mem, h, data)
               /\ len' = len + 1
               /\ UNCHANGED <<buffer, tail, maxlen>>
               /\ last' = Call("push", 0, 0, 0, 0, data, "none", 0, MemOob(h))
               /\ GhostAdd(1, TRUE)
               /\ pushed' = IF track THEN Append(pushed, data) ELSE pushed
    /\ data_buf' = <<>>
    /\ UNCHANGED <<defined, track, popped>>

\* data is the out-parameter: "NULL" or "valid".
circular_buffer_pop(data) ==
    /\ Idle
    /\ defined
    /\ IF data = "NULL" \/ circular_buffer_is_empty = 1
       THEN /\ UNCHANGED <<cb, held, sincePush, sinceRem, popped>>
            /\ last' = SetErrno(Call("pop", -1, 0, 0, 0, 0, data, 0, {}), "EINVAL")
       ELSE /\ tail' = pop_tail(tail, len)
            /\ len' = len - 1
            /\ UNCHANGED <<buffer, mem, head, maxlen>>
            /\ last' = Call("pop", 0, 0, 0, 0, 0, data, MemRead(tail), MemOob(tail))
            /\ GhostRemove(1, len - 1)
            /\ popped' = IF track THEN Append(popped, MemRead(tail)) ELSE popped
    /\ data_buf' = <<>>
    /\ UNCHANGED <<defined, track, pushed>>

\* Mutant: the positions are reset but the element count is kept.
circular_buffer_empty_keeplen ==
    /\ Idle
    /\ defined
    /\ head' = 0
    /\ tail' = 0
    /\ UNCHANGED <<buffer, mem, len, maxlen>>
    /\ last' = Call("empty", 0, 0, 0, 0, 0, "none", 0, {})
    /\ data_buf' = <<>>
    /\ UNCHANGED <<defined, ghost>>

circular_buffer_empty ==
    /\ Idle
    /\ defined
    /\ head' = 0
    /\ tail' = 0
    /\ len' = 0
    /\ UNCHANGED <<buffer, mem, maxlen>>
    /\ last' = Call("empty", 0, 0, 0, 0, 0, "none", 0, {})
    /\ data_buf' = <<>>
    /\ GhostReset
    /\ UNCHANGED <<defined, track, pushed, popped>>

\* ------------------------------------------------------------- get_data
\* The while loop of circular_buffer_get_data on s = [tail, len, count,
\* data_buf, ub], for the arguments len = n and offset = off.
\* Mutant: tail advances when the last element is taken too.
get_data_tail_always(t, l) == CMod(t + 1, maxlen)

\* The tail one iteration leaves, from tail t and length l.
get_data_tail(t, l) == IF l > 1 THEN CMod(t + 1, maxlen) ELSE t

RECURSIVE get_data_loop(_, _, _)
get_data_loop(s, n, off) ==
    IF s.len > 0 /\ (s.count + off) < n
    THEN get_data_loop(
            [tail |-> get_data_tail(s.tail, s.len),
             len |-> s.len - 1,
             count |-> s.count + 1,
             data_buf |-> ExtWrite(s.data_buf, off + s.count, MemRead(s.tail)),
             ub |-> s.ub \cup MemOob(s.tail) \cup ExtOob(s.data_buf, off + s.count)],
            n, off)
    ELSE s

\* db is the caller's array (of n slots) as it is before the call.
circular_buffer_get_data(db, n, off) ==
    /\ Idle
    /\ defined
    /\ IF n <= 0
       THEN /\ UNCHANGED <<cb, held, sincePush, sinceRem>>
            /\ last' = SetErrno(Call("get_data", -1, n, off, 0, 0, "none", 0, {}), "EINVAL")
            /\ data_buf' = db
       ELSE LET s == get_data_loop(
                        [tail |-> tail, len |-> len, count |-> 0,
                         data_buf |-> Memset0(db, n), ub |-> {}], n, off)
            IN /\ tail' = s.tail
               /\ len' = s.len
               /\ UNCHANGED <<buffer, mem, head, maxlen>>
               /\ last' = Call("get_data", s.count, n, off, 0, 0, "none", 0, s.ub)
               /\ data_buf' = s.data_buf
               /\ GhostRemove(s.count, s.len)
    /\ UNCHANGED <<defined, track, pushed, popped>>

\* ------------------------------------------------------------- set_data
\* The while loop of circular_buffer_set_data on s = [mem, head, len, count,
\* ub], reading the caller's array db.
\* Mutant: head advances on the store into an empty buffer too.
set_data_head_always(h, l) == CMod(h + 1, maxlen)

\* The head one iteration writes at, from head h and length l.
set_data_head(h, l) == IF l > 0 THEN CMod(h + 1, maxlen) ELSE h

\* Mutant: the loop runs once more, up to count + offset = len.
set_data_more_le(l, count, n, off) == l < maxlen /\ (count + off) <= n

\* The loop condition, on length l and count, for the arguments n and off.
set_data_more(l, count, n, off) == l < maxlen /\ (count + off) < n

RECURSIVE set_data_loop(_, _, _, _)
set_data_loop(s, db, n, off) ==
    IF set_data_more(s.len, s.count, n, off)
    THEN LET h == set_data_head(s.head, s.len)
         IN set_data_loop(
                [mem |-> MemWrite(s.mem, h, ExtRead(db, off + s.count)),
                 head |-> h,
                 len |-> s.len + 1,
                 count |-> s.count + 1,
                 ub |-> s.ub \cup ExtOob(db, off + s.count)
                        \cup (IF h \in 0..(Len(s.mem) - 1) THEN {} ELSE {"cb_oob"})],
                db, n, off)
    ELSE s

circular_buffer_set_data(db, n, off) ==
    /\ Idle
    /\ defined
    /\ IF n < 0
       THEN /\ UNCHANGED <<cb, held, sincePush, sinceRem>>
            /\ last' = SetErrno(Call("set_data", -1, n, off, 0, 0, "none", 0, {}), "EINVAL")
       ELSE LET s == set_data_loop(
                        [mem |-> mem, head |-> head, len |-> len, count |-> 0,
                         ub |-> {}], db, n, off)
            IN /\ mem' = s.mem
               /\ head' = s.head
               /\ len' = s.len
               /\ UNCHANGED <<buffer, tail, maxlen>>
               /\ last' = Call("set_data", s.count, n, off, 0, 0, "none", 0, s.ub)
               /\ GhostAdd(s.count, FALSE)
    /\ data_buf' = db
    /\ UNCHANGED <<defined, track, pushed, popped>>

\* ----------------------------------------------------------------- peek
\* The while loop of circular_buffer_peek on s = [i, count, data_buf, ub].
\* Mutant: the read position never advances.
peek_next_stuck(i) == i

\* The read position after one iteration, from position i.
peek_next(i) == IF len > 1 THEN CMod(i + 1, maxlen) ELSE i

RECURSIVE peek_loop(_, _, _)
peek_loop(s, n, off) ==
    IF s.count < len /\ (s.count + off) < n
    THEN peek_loop(
            [i |-> peek_next(s.i),
             count |-> s.count + 1,
             data_buf |-> ExtWrite(s.data_buf, off + s.count, MemRead(s.i)),
             ub |-> s.ub \cup MemOob(s.i) \cup ExtOob(s.data_buf, off + s.count)],
            n, off)
    ELSE s

\* Mutant: the loop walks c_buf->tail itself, as get_data does, instead of
\* the local index i.
circular_buffer_peek_moves_tail(db, n, off, off_cb) ==
    /\ Idle
    /\ defined
    /\ IF n <= 0 \/ maxlen = 0
       THEN /\ last' = SetErrno(Call("peek", -1, n, off, off_cb, 0, "none", 0, {}), "EINVAL")
            /\ data_buf' = db
            /\ tail' = tail
       ELSE LET s == peek_loop([i |-> CMod(tail + off, maxlen), count |-> off,
                                data_buf |-> Memset0(db, n), ub |-> {}], n, off)
            IN /\ last' = Call("peek", s.count, n, off, off_cb, 0, "none", 0, s.ub)
               /\ data_buf' = s.data_buf
               /\ tail' = s.i
    /\ UNCHANGED <<buffer, mem, head, len, maxlen, defined, ghost>>

\* (tail + offset) % maxlen with maxlen = 0 is undefined: the build either
\* traps (the call does not return) or leaves the dividend.
circular_buffer_peek(db, n, off, off_cb) ==
    /\ Idle
    /\ defined
    /\ IF n <= 0
       THEN /\ last' = SetErrno(Call("peek", -1, n, off, off_cb, 0, "none", 0, {}), "EINVAL")
            /\ data_buf' = db
       ELSE IF maxlen = 0
       THEN \E trap \in BOOLEAN :
            IF trap
            THEN /\ last' = Call("peek", Indet, n, off, off_cb, 0, "none", 0, {"div0", "trap"})
                 /\ data_buf' = Memset0(db, n)
            ELSE LET s == peek_loop([i |-> tail + off, count |-> off,
                                     data_buf |-> Memset0(db, n), ub |-> {"div0"}],
                                    n, off)
                 IN /\ last' = Call("peek", s.count, n, off, off_cb, 0, "none", 0, s.ub)
                    /\ data_buf' = s.data_buf
       ELSE LET s == peek_loop([i |-> CMod(tail + off, maxlen), count |-> off,
                                data_buf |-> Memset0(db, n), ub |-> {}], n, off)
            IN /\ last' = Call("peek", s.count, n, off, off_cb, 0, "none", 0, s.ub)
               /\ data_buf' = s.data_buf
    /\ UNCHANGED <<cb, defined, ghost>>

\* --------------------------------------------------------------- caller
\* The caller takes the result of the call; the record of it is dropped.
Return ==
    /\ ~Idle
    /\ last' = NoCall
    /\ data_buf' = <<>>
    /\ UNCHANGED <<cb, defined, ghost>>

\* ----------------------------------------------------- specifications
Slots(n) == IF n < 0 THEN 0 ELSE n
\* The caller's array of n slots before a call that writes it.
DestArrays(n) == {[k \in 1..Slots(n) |-> f] : f \in Fills}
\* The caller's array of n slots before a call that reads it: the elements
\* in rotation, from any starting element.
SrcArrays(n) == {[k \in 1..Slots(n) |-> ((k + r) % MaxElem) + 1] : r \in 1..MaxElem}

Next ==
    \/ \E c \in Caps : circular_buffer_init(c)
    \/ circular_buffer_deinit
    \/ \E e \in Elems : circular_buffer_push(e)
    \/ \E d \in {"NULL", "valid"} : circular_buffer_pop(d)
    \/ circular_buffer_empty
    \/ \E n \in Ints, off \in Ints : \E db \in DestArrays(n) :
          circular_buffer_get_data(db, n, off)
    \/ \E n \in Ints, off \in Ints : \E db \in SrcArrays(n) :
          circular_buffer_set_data(db, n, off)
    \/ \E n \in Ints, off \in Ints, ocb \in OffCbs : \E db \in DestArrays(n) :
          circular_buffer_peek(db, n, off, ocb)
    \/ Return

Spec == Init /\ [][Next]_vars

\* Push and pop only, with the history of pushed and popped elements recorded.
InitFifo ==
    /\ buffer \in {"NULL", "wild"}
    /\ mem = <<>>
    /\ head = Indet
    /\ tail = Indet
    /\ len = Indet
    /\ maxlen = Indet
    /\ defined = FALSE
    /\ last = NoCall
    /\ data_buf = <<>>
    /\ held = 0
    /\ sincePush = 0
    /\ sinceRem = FALSE
    /\ track = TRUE
    /\ pushed = <<>>
    /\ popped = <<>>

NextFifo ==
    \/ \E c \in 1..MaxCap : circular_buffer_init(c)
    \/ \E e \in Elems : Len(pushed) < MaxPush /\ circular_buffer_push(e)
    \/ circular_buffer_pop("valid")
    \/ Return

SpecFifo == InitFifo /\ [][NextFifo]_vars

\* ================================================================ claims
\* The buffer is initialized with capacity >= 1 and not torn down.
Live == defined /\ buffer = "heap" /\ maxlen >= 1

Min(a, b) == IF a < b THEN a ELSE b

\* C1: for every sequence of Push and Pop calls on an initialized buffer of
\* capacity >= 1, the k-th successful Pop returns the element of the k-th
\* successful Push, and the buffer holds exactly the pushed elements not yet
\* popped (so N pushes then N pops leave it empty).
C1_FifoOrder ==
    /\ Len(popped) <= Len(pushed)
    /\ \A k \in 1..Len(popped) : popped[k] = pushed[k]
    /\ Live => len = Len(pushed) - Len(popped)
    /\ Live /\ Len(popped) = Len(pushed) => circular_buffer_is_empty = 1

\* Capacity N = MaxCap, N distinct elements pushed into the empty buffer and
\* popped, then further pushes and pops that wrap around the storage.
C1_Witness ==
    /\ Live
    /\ maxlen = MaxCap
    /\ Len(pushed) = MaxPush
    /\ Len(popped) = MaxPush
    /\ Cardinality({pushed[k] : k \in 1..maxlen}) = maxlen
    /\ len = 0

\* C2: in every state reachable from a successful init with capacity >= 1 by
\* push, pop, empty, get_data, set_data and peek with any arguments,
\* 0 <= len <= maxlen.
C2_LenInRange == Live => (0 <= len /\ len <= maxlen)

\* The buffer was filled to capacity by set_data called with a negative offset.
C2_Witness ==
    /\ Live
    /\ last.op = "set_data"
    /\ last.offset < 0
    /\ last.ret > 1
    /\ len = maxlen

\* C3: in every such state head and tail are in [0, maxlen); head = tail
\* when len = 0 and head = (tail + len - 1) mod maxlen when len > 0.
C3_HeadTail ==
    Live =>
        /\ head \in 0..(maxlen - 1)
        /\ tail \in 0..(maxlen - 1)
        /\ len = 0 => head = tail
        /\ len > 0 => head = (tail + len - 1) % maxlen

\* The valid span wraps around the end of the storage.
C3_Witness == Live /\ len > 1 /\ head < tail

\* C4: on an initialized buffer push fails iff len = maxlen at the call; a
\* successful push increases len by exactly 1 and leaves the element at
\* storage[head].
C4_Push ==
    [][Live /\ last'.op = "push" =>
          /\ last'.ret \in {0, -1}
          /\ last'.ret = -1 <=> len = maxlen
          /\ last'.ret = 0 =>
                /\ len' = len + 1
                /\ head' \in 0..(maxlen - 1)
                /\ mem'[head' + 1] = last'.data]_vars

\* A push succeeded with head wrapping from the last slot to slot 0.
C4_Witness ==
    /\ Live
    /\ last.op = "push"
    /\ last.ret = 0
    /\ len > 1
    /\ head = 0

\* C5: on an initialized buffer and with a valid output location pop fails
\* iff len = 0 at the call; a successful pop returns storage[tail] as it was
\* before the call and decreases len by exactly 1.
C5_Pop ==
    [][Live /\ last'.op = "pop" /\ last'.out = "valid" =>
          /\ last'.ret \in {0, -1}
          /\ last'.ret = -1 <=> len = 0
          /\ last'.ret = 0 =>
                /\ len' = len - 1
                /\ tail \in 0..(maxlen - 1)
                /\ last'.val = mem[tail + 1]]_vars

\* A pop succeeded with tail wrapping from the last slot to slot 0.
C5_Witness ==
    /\ Live
    /\ last.op = "pop"
    /\ last.ret = 0
    /\ last.val \in Elems
    /\ len > 0
    /\ tail = 0
    /\ head = 0

\* The operations the error-handling contract lists as failing: init on a
\* failed allocation, push on a full buffer, pop on an empty buffer or with
\* an absent output, get_data or peek with len <= 0, set_data with len < 0.
Failed(c) ==
    \/ c.op \in {"init", "push", "pop"} /\ c.ret = -1
    \/ c.op \in {"get_data", "peek"} /\ c.len <= 0
    \/ c.op = "set_data" /\ c.len < 0

\* C6: after any operation that fails, every field of the buffer (storage
\* reference and slot contents, head, tail, len, maxlen) is what it was
\* before the call.
C6_NoPartialMutation == [][Failed(last') => cb' = cb]_vars

\* C7: is_empty is true immediately after a successful init and after
\* empty, and false immediately after a successful push.
C7_IsEmpty ==
    /\ last.op = "init" /\ last.ret = 0 => circular_buffer_is_empty = 1
    /\ last.op = "empty" => circular_buffer_is_empty = 1
    /\ last.op = "push" /\ last.ret = 0 => circular_buffer_is_empty = 0

\* empty was called on a full buffer whose span started past slot 0.
C7_Witness ==
    /\ Live
    /\ last.op = "empty"
    /\ len = 0
    /\ head = 0
    /\ tail = 0
    /\ \A i \in 1..maxlen : mem[i] \in Elems
    /\ maxlen > 1

\* C8 (as stated): is_full is true iff exactly maxlen successful pushes have
\* occurred since the buffer was last empty, with no interleaved removal.
C8_Original ==
    Live => (circular_buffer_is_full = 1 <=> (sincePush = maxlen /\ ~sinceRem))

\* C8 (amended): is_full is true iff the elements stored minus the elements
\* removed since the buffer was last empty number maxlen; maxlen successful
\* pushes since then with no interleaved removal are sufficient for that.
C8_Full ==
    Live =>
        /\ circular_buffer_is_full = 1 <=> held = maxlen
        /\ sincePush = maxlen /\ ~sinceRem => circular_buffer_is_full = 1

\* The buffer is full after a pop and a further push: more than maxlen
\* pushes since it was last empty.
C8_Witness ==
    /\ Live
    /\ last.op = "push"
    /\ last.ret = 0
    /\ circular_buffer_is_full = 1
    /\ sincePush > maxlen
    /\ sinceRem

\* k consecutive successful pops from s = [tail, len, out]; out collects the
\* elements returned.
RECURSIVE pop_n(_, _)
pop_n(s, k) ==
    IF k <= 0 THEN s
    ELSE pop_n([tail |-> pop_tail(s.tail, s.len),
                len |-> s.len - 1,
                out |-> Append(s.out, MemRead(s.tail))], k - 1)

\* C9: for len > 0 and 0 <= offset < len, get_data returns
\* n = min(c_buf->len, len - offset) and leaves head, tail, len and
\* data_buf[offset .. offset+n-1] exactly as n consecutive pops would.
C9_DrainIsPops ==
    [][Live /\ last'.op = "get_data" /\ last'.len > 0
            /\ 0 <= last'.offset /\ last'.offset < last'.len =>
          LET n == Min(len, last'.len - last'.offset)
              r == pop_n([tail |-> tail, len |-> len, out |-> <<>>], n)
          IN /\ last'.ret = n
             /\ tail' = r.tail
             /\ len' = r.len
             /\ head' = head
             /\ mem' = mem
             /\ maxlen' = maxlen
             /\ \A j \in 1..n : data_buf'[last'.offset + j] = r.out[j]]_vars

\* Two elements were drained to data_buf[1..2] from a span that wrapped.
C9_Witness ==
    /\ Live
    /\ last.op = "get_data"
    /\ last.ret = 2
    /\ last.offset = 1
    /\ data_buf[2] \in Elems
    /\ data_buf[3] \in Elems
    /\ data_buf[2] # data_buf[3]
    /\ maxlen = 2
    /\ tail = 0

\* C10: after a successful get_data every one of the len slots of data_buf
\* that was not written with a drained element holds zero.
C10_ZeroFilled ==
    last.op = "get_data" /\ last.ret >= 0 =>
        \A k \in 0..(last.len - 1) :
            (k < last.offset \/ k >= last.offset + last.ret) => data_buf[k + 1] = 0

\* k consecutive successful pushes of es[1], es[2], ... from
\* s = [mem, head, len].
RECURSIVE push_n(_, _, _)
push_n(s, es, k) ==
    IF k <= 0 THEN s
    ELSE LET h == push_head(s.head, s.len)
         IN push_n([mem |-> MemWrite(s.mem, h, Head(es)),
                    head |-> h,
                    len |-> s.len + 1], Tail(es), k - 1)

\* C11: for len >= 0 and 0 <= offset <= len, set_data returns
\* n = min(maxlen - c_buf->len, len - offset) and leaves the buffer exactly as
\* n consecutive successful pushes of data_buf[offset], ...,
\* data_buf[offset+n-1] would.
C11_FillIsPushes ==
    [][Live /\ last'.op = "set_data" /\ last'.len >= 0
            /\ 0 <= last'.offset /\ last'.offset <= last'.len =>
          LET n == Min(maxlen - len, last'.len - last'.offset)
              es == [j \in 1..n |-> data_buf'[last'.offset + j]]
              r == push_n([mem |-> mem, head |-> head, len |-> len], es, n)
          IN /\ last'.ret = n
             /\ mem' = r.mem
             /\ head' = r.head
             /\ len' = r.len
             /\ tail' = tail
             /\ maxlen' = maxlen
             /\ buffer' = buffer
             /\ (len' = maxlen \/ last'.offset + n = last'.len)]_vars

\* Two elements were stored from data_buf[1..2] into an empty buffer whose
\* positions stood at slot 1: the second store wrapped round to slot 0.
C11_Witness ==
    /\ Live
    /\ last.op = "set_data"
    /\ last.ret = 2
    /\ last.offset = 1
    /\ last.len = 3
    /\ maxlen = 2
    /\ head = 0
    /\ tail = 1
    /\ mem[1] # mem[2]

\* C12 (as stated): get_data called with len = 0 and set_data called with
\* len = 0 (offset 0) each return 0, report no failure and leave head, tail,
\* len and the storage unchanged.
C12_Original ==
    [][/\ last'.op = "get_data" /\ last'.len = 0 /\ last'.offset = 0 =>
            last'.ret = 0 /\ last'.err = "none" /\ cb' = cb
       /\ last'.op = "set_data" /\ last'.len = 0 /\ last'.offset = 0 =>
            last'.ret = 0 /\ last'.err = "none" /\ cb' = cb]_vars

\* C12 (amended): get_data called with len = 0 fails (returns -1 with errno
\* EINVAL); set_data called with len = 0 and offset 0 returns 0 and reports
\* no failure; both leave head, tail, len and the storage unchanged.
C12_EmptyRequest ==
    [][/\ last'.op = "get_data" /\ last'.len = 0 /\ last'.offset = 0 =>
            last'.ret = -1 /\ last'.err = "EINVAL" /\ cb' = cb
       /\ last'.op = "set_data" /\ last'.len = 0 /\ last'.offset = 0 =>
            last'.ret = 0 /\ last'.err = "none" /\ cb' = cb]_vars

\* set_data with len = 0 and offset 0 returned on a buffer that holds an
\* element and has room for more.
C12_Witness ==
    /\ Live
    /\ last.op = "set_data"
    /\ last.len = 0
    /\ last.offset = 0
    /\ last.ret = 0
    /\ len > 0
    /\ len < maxlen

\* C13: peek never changes the buffer: for any arguments and any reachable
\* state of an initialized buffer, head, tail, len, maxlen, the storage
\* reference and every storage slot are the same after peek as before it,
\* whether it succeeds or fails.
C13_PeekFrame == [][Live /\ last'.op = "peek" => cb' = cb]_vars

\* peek copied two distinct elements from a span that wraps round the end of
\* the storage.
C13_Witness ==
    /\ Live
    /\ last.op = "peek"
    /\ last.ret = 2
    /\ last.offset = 0
    /\ len = 2
    /\ tail = 1
    /\ head = 0
    /\ data_buf[1] \in Elems
    /\ data_buf[2] \in Elems
    /\ data_buf[1] # data_buf[2]

\* C14: for len > 0, 0 <= offset < len and 0 <= offset_cb <= c_buf->len,
\* peek returns n = min(len - offset, c_buf->len - offset_cb), and for every
\* j in [0, n) data_buf[offset + j] is the element at logical position
\* offset_cb + j, buffer[(tail + offset_cb + j) mod maxlen].  (peek leaves
\* the buffer as it was, so the state after the call shows both.)
C14_PeekContract ==
    Live /\ last.op = "peek" /\ last.len > 0
         /\ 0 <= last.offset /\ last.offset < last.len
         /\ 0 <= last.offset_cb /\ last.offset_cb <= len =>
        LET n == Min(last.len - last.offset, len - last.offset_cb)
        IN /\ last.ret = n
           /\ \A j \in 0..(n - 1) :
                 data_buf[last.offset + j + 1]
                    = mem[((tail + last.offset_cb + j) % maxlen) + 1]

\* C15: init fails with EINVAL whenever max_len <= 0; it succeeds only for
\* max_len >= 1, and then head = tail = len = 0 and maxlen = max_len.
C15_InitValidates ==
    last.op = "init" =>
        /\ last.len <= 0 => (last.ret = -1 /\ last.err = "EINVAL")
        /\ last.ret = 0 =>
              /\ last.len >= 1
              /\ head = 0
              /\ tail = 0
              /\ len = 0
              /\ maxlen = last.len

\* C16: on a buffer initialized with capacity >= 1, for any argument values,
\* every read or write of the storage uses an index in [0, maxlen).
C16_StorageInBounds == Live => "cb_oob" \notin last.ub

\* C17: every failed operation reports an error kind that tells the
\* conditions apart: no failure leaves errno unassigned, and push on a full
\* buffer and pop on an empty buffer each report a kind other than the one
\* of an invalid argument (EINVAL) and of a failed allocation (ENOMEM).
C17_ErrorKinds ==
    /\ (last.op = "init" \/ Live) /\ Failed(last) => last.err # "none"
    /\ Live /\ last.op = "push" /\ last.ret = -1
          => last.err \notin {"none", "EINVAL", "ENOMEM"}
    /\ Live /\ last.op = "pop" /\ last.ret = -1 /\ last.out = "valid"
          => last.err \notin {"none", "EINVAL", "ENOMEM"}

\* C18: on an initialized buffer peek with offset 0 and len > 0 returns
\* min(c_buf->len, len) and fills data_buf[0 .. count-1] with the held
\* elements oldest first: the count and the elements, at the same positions,
\* that get_data with offset 0 delivers from the same state.  (peek leaves
\* the buffer as it was, so get_data is run here on the state after it.)
C18_PeekIsDrain ==
    Live /\ last.op = "peek" /\ last.offset = 0 /\ last.len > 0 =>
        LET d == get_data_loop([tail |-> tail, len |-> len, count |-> 0,
                                data_buf |-> data_buf, ub |-> {}], last.len, 0)
        IN /\ last.ret = Min(len, last.len)
           /\ last.ret = d.count
           /\ \A k \in 1..last.ret :
                 /\ data_buf[k] = d.data_buf[k]
                 /\ data_buf[k] = mem[((tail + k - 1) % maxlen) + 1]

\* peek into an array of three slots copied the two held elements, distinct
\* and stored across the wrap, and left the third slot alone.
C18_Witness ==
    /\ Live
    /\ last.op = "peek"
    /\ last.offset = 0
    /\ last.len = 3
    /\ last.ret = 2
    /\ head < tail
    /\ data_buf[1] \in Elems
    /\ data_buf[2] \in Elems
    /\ data_buf[1] # data_buf[2]
    /\ data_buf[3] = Junk

\* C19: get_data, set_data and peek never index the caller's array outside
\* [0, len), for every integer offset.
C19_CallerArrayInBounds ==
    Live /\ last.op \in {"get_data", "set_data", "peek"} => "ext_oob" \notin last.ub

\* C20: in a state with maxlen = 0 and no storage (after deinit, or after an
\* init that accepted max_len 0) every operation other than init returns
\* without touching the storage and without a modulo by zero: push and pop
\* fail, get_data, set_data and peek transfer no element, and deinit succeeds
\* leaving the all-zero state.
C20_ZeroCapacity ==
    [][defined /\ maxlen = 0 /\ last'.op \notin {"none", "init"} =>
          /\ last'.ub = {}
          /\ last'.op \in {"push", "pop"} => last'.ret = -1
          /\ last'.op \in {"get_data", "set_data", "peek"} => last'.ret <= 0
          /\ last'.op # "deinit" => cb' = cb
          /\ last'.op = "deinit" =>
                /\ last'.ret = 0
                /\ buffer' = "NULL"
                /\ head' = 0 /\ tail' = 0 /\ len' = 0 /\ maxlen' = 0]_vars

====
